---- MODULE Spec2Model ----
(***************************************************************************)
(* pelican_bibtex: the add_publications signal handler and the MyStyle     *)
(* citation formatters of src/pelican_bibtex.py.                           *)
(*                                                                         *)
(* Text is a sequence of tokens (strings).  A bibliography entry is a      *)
(* record [type, fields, persons]; fields and persons are functions whose  *)
(* DOMAIN is the set of names present, as the Python dicts are.            *)
(* The template nodes imported from pybtex (field, optional, first_of,     *)
(* join, words, sentence, tag, href, pages, date, toplevel) are modelled   *)
(* with pybtex's semantics: a node evaluates to a text, or raises          *)
(* FieldIsMissing, which only `optional` catches.                          *)
(***************************************************************************)
EXTENDS Integers, Sequences, FiniteSets, TLC

VARIABLES
    py,            \* major version of the interpreter the plugin runs under
    settings,      \* generator.settings
    parseResult,   \* what Parser().parse_file(refs_file) does for this file
    run,           \* number of the current generator_init delivery
    pc,            \* position of add_publications in the current run
    err,           \* the exception that left add_publications, "" if none
    idx,           \* position of the for loop of line 178 in the entries
    publications,  \* local list of line 175
    reports,       \* local list of line 176
    unpublished,   \* local list of line 177
    context,       \* generator.context (only the keys the plugin writes)
    log,           \* records received by the module's logger
    parserCalls,   \* number of calls of Parser().parse_file so far
    atEntry,       \* Len(log) and parserCalls when the current run began
    finished,      \* outcome of the earlier runs
    fmtEntry,      \* the entry handed to a formatter (formatter specification)
    fmtOut         \* what the formatter did with it

vars == <<py, settings, parseResult, run, pc, err, idx, publications, reports,
          unpublished, context, log, parserCalls, atEntry, finished,
          fmtEntry, fmtOut>>

pipeVars == <<py, settings, parseResult, run, pc, err, idx, publications,
              reports, unpublished, context, log, parserCalls, atEntry,
              finished>>

fmtVars == <<fmtEntry, fmtOut>>

----------------------------------------------------------------------------
(* Bounds *)

MaxEntries == 3

MaxRuns == 2

----------------------------------------------------------------------------
(* Text helpers *)

RECURSIVE Concat(_)
Concat(ts) == IF ts = <<>> THEN <<>> ELSE Head(ts) \o Concat(Tail(ts))

RECURSIVE Intersperse(_, _)
Intersperse(sep, parts) ==
    IF Len(parts) <= 1 THEN Concat(parts)
    ELSE Head(parts) \o <<sep>> \o Intersperse(sep, Tail(parts))

NonEmpty(ts) == SelectSeq(ts, LAMBDA t : t # <<>>)

----------------------------------------------------------------------------
(* pybtex template nodes.  A node's value is [ok, text]; ok = FALSE is     *)
(* FieldIsMissing raised while the node was being formatted.               *)

Ok(t) == [ok |-> TRUE, text |-> t]

Missing == [ok |-> FALSE, text |-> <<>>]

AllOk(rs) == \A i \in 1..Len(rs) : rs[i].ok

Texts(rs) == [i \in 1..Len(rs) |-> rs[i].text]

field(entry, name) ==
    IF name \in DOMAIN entry.fields THEN Ok(entry.fields[name]) ELSE Missing

optional(rs) == IF AllOk(rs) THEN Ok(Concat(Texts(rs))) ELSE Ok(<<>>)

optional_field(entry, name) == optional(<<field(entry, name)>>)

\* first_of formats its children in order and returns the first non-empty
\* one; a child that raises before one is found raises out of first_of.
RECURSIVE first_of(_)
first_of(rs) ==
    IF rs = <<>> THEN Ok(<<>>)
    ELSE IF ~Head(rs).ok THEN Missing
    ELSE IF Head(rs).text # <<>> THEN Head(rs)
    ELSE first_of(Tail(rs))

\* join drops the empty parts and puts sep between the others.
join(sep, rs) ==
    IF ~AllOk(rs) THEN Missing
    ELSE Ok(IF sep = "" THEN Concat(NonEmpty(Texts(rs)))
            ELSE Intersperse(sep, NonEmpty(Texts(rs))))

words(rs) == join(" ", rs)

add_period(t) == IF t # <<>> /\ t[Len(t)] # "." THEN t \o <<".">> ELSE t

sentence(rs) ==
    LET j == join(", ", rs) IN IF j.ok THEN Ok(add_period(j.text)) ELSE Missing

tag(name, r) ==
    IF ~r.ok THEN Missing
    ELSE IF r.text = <<>> THEN Ok(<<>>)
    ELSE Ok(<<"<" \o name \o ">">> \o r.text \o <<"</" \o name \o ">">>)

href(url, label) ==
    IF ~url.ok \/ ~label.ok THEN Missing
    ELSE Ok(<<"<a href=">> \o url.text \o <<">">> \o label.text \o <<"</a>">>)

toplevel(rs) == join("{newblock}", rs)

\* pages = field('pages', apply_func=dashify): every run of hyphens becomes
\* one en-dash symbol.
RECURSIVE dashify(_)
dashify(t) ==
    IF t = <<>> THEN <<>>
    ELSE IF Head(t) = "-"
         THEN IF Len(t) > 1 /\ t[2] = "-" THEN dashify(Tail(t))
              ELSE <<"{ndash}">> \o dashify(Tail(t))
    ELSE <<Head(t)>> \o dashify(Tail(t))

pages(entry) ==
    IF "pages" \in DOMAIN entry.fields
    THEN Ok(dashify(entry.fields["pages"])) ELSE Missing

\* date = words[optional_field('month'), field('year')]
date(entry) == words(<<optional_field(entry, "month"), field(entry, "year")>>)

\* names(role, sep=', ', sep2=' and ', last_sep=', and ')
names(entry, role) ==
    IF role \notin DOMAIN entry.persons THEN Missing
    ELSE LET ps == entry.persons[role]
             n == Len(ps)
         IN Ok(IF n = 0 THEN <<>>
               ELSE IF n = 1 THEN <<ps[1]>>
               ELSE IF n = 2 THEN <<ps[1], " and ", ps[2]>>
               ELSE Intersperse(", ", [i \in 1..(n - 1) |-> <<ps[i]>>])
                    \o <<", and ", ps[n]>>)

format_names(entry, role) == sentence(<<names(entry, role)>>)

\* html.Backend: symbols become entities, the other tokens are kept.
render(t) ==
    [i \in 1..Len(t) |->
        IF t[i] = "{ndash}" THEN "&ndash;"
        ELSE IF t[i] = "{newblock}" THEN "\n"
        ELSE t[i]]

----------------------------------------------------------------------------
(* MyStyle *)

Lit(s) == Ok(<<s>>)

\* str.capitalize on the words the modelled titles are made of.
lower(w) ==
    CASE w = "Deep" -> "deep" [] w = "Nets" -> "nets" [] OTHER -> w

upperFirst(w) ==
    CASE w = "deep" -> "Deep" [] w = "nets" -> "Nets" [] OTHER -> w

capitalize(t) ==
    [i \in 1..Len(t) |-> IF i = 1 THEN upperFirst(lower(t[i])) ELSE lower(t[i])]

format_title(entry, which_field) ==
    sentence(<<IF which_field \in DOMAIN entry.fields
               THEN tag("b", Ok(capitalize(entry.fields[which_field])))
               ELSE Missing>>)

format_url(entry) ==
    <<Lit("["), href(field(entry, "url"), join(" ", <<Lit("URL")>>)), Lit("]")>>

format_doi(entry) == <<>>

\* unsrt.Style.format_web_refs, with the two overrides above.
format_web_refs(entry) ==
    sentence(<<optional(format_url(entry)), optional(format_doi(entry))>>)

\* The two alternatives of first_of in the other order.
pages_before_volume(entry) ==
    first_of(<<
        optional(<<words(<<Lit("pages"), pages(entry)>>)>>),
        optional(<<join("", <<field(entry, "volume"),
                              optional(<<Lit("("), field(entry, "number"), Lit(")")>>),
                              Lit(":"),
                              pages(entry)>>)>>)
    >>)

volume_and_pages(entry) ==
    first_of(<<
        optional(<<join("", <<field(entry, "volume"),
                              optional(<<Lit("("), field(entry, "number"), Lit(")")>>),
                              Lit(":"),
                              pages(entry)>>)>>),
        optional(<<words(<<Lit("pages"), pages(entry)>>)>>)
    >>)

article_venue(entry) ==
    sentence(<<tag("em", field(entry, "journal")),
               optional(<<volume_and_pages(entry)>>),
               date(entry)>>)

format_article(entry) ==
    toplevel(<<format_title(entry, "title"),
               format_names(entry, "author"),
               article_venue(entry),
               sentence(<<optional_field(entry, "note")>>),
               format_web_refs(entry)>>)

\* The literal ahead of the 'type' field in first_of.
literal_before_type(entry) ==
    words(<<first_of(<<Lit("Unpublished"), optional_field(entry, "type")>>),
            optional_field(entry, "number")>>)

unpublished_label(entry) ==
    words(<<first_of(<<optional_field(entry, "type"), Lit("Unpublished")>>),
            optional_field(entry, "number")>>)

format_unpublished(entry) ==
    toplevel(<<format_title(entry, "title"),
               sentence(<<format_names(entry, "author")>>),
               sentence(<<unpublished_label(entry), date(entry)>>),
               sentence(<<optional_field(entry, "note")>>),
               format_web_refs(entry)>>)

techreport_label(entry) ==
    words(<<first_of(<<optional_field(entry, "type"), Lit("Technical Report")>>),
            optional_field(entry, "number")>>)

format_techreport(entry) ==
    toplevel(<<format_title(entry, "title"),
               sentence(<<format_names(entry, "author")>>),
               sentence(<<techreport_label(entry),
                          field(entry, "institution"),
                          optional_field(entry, "address"),
                          date(entry)>>),
               sentence(<<optional_field(entry, "note")>>),
               format_web_refs(entry)>>)

\* unsrt.Style.format_misc, which MyStyle inherits: the formatter of a
\* category MyStyle does not override.
format_misc(entry) ==
    toplevel(<<optional(<<sentence(<<format_names(entry, "author")>>)>>),
               optional(<<format_title(entry, "title")>>),
               sentence(<<optional(<<field(entry, "howpublished")>>),
                          optional(<<date(entry)>>)>>),
               sentence(<<optional_field(entry, "note")>>),
               format_web_refs(entry)>>)

\* Style.format_entries looks the formatter up by the entry's type.
format_entry(entry) ==
    CASE entry.type = "article" -> format_article(entry)
      [] entry.type = "unpublished" -> format_unpublished(entry)
      [] entry.type = "techreport" -> format_techreport(entry)
      [] OTHER -> format_misc(entry)

----------------------------------------------------------------------------
(* Formatter specification: one entry, drawn from every combination of     *)
(* present and absent fields of its category, is handed to its formatter.  *)

Categories == {"article", "unpublished", "techreport", "misc"}

\* The values a field takes when it is present; "author" is the person role.
FieldValues(name) ==
    CASE name = "title" -> << <<"deep", "Nets">> >>
      [] name = "author" -> << <<"A. Doe">>, <<"A. Doe", "B. Roe">> >>
      [] name = "journal" -> << <<"ACM Computing Surveys">> >>
      [] name = "volume" -> << <<>>, <<"52">> >>
      [] name = "number" -> << <<>>, <<"4">> >>
      [] name = "pages" -> << <<"1", "-", "35">>, <<"1", "-", "-", "35">> >>
      [] name = "year" -> << <<"2", "0", "2", "0">> >>
      [] name = "month" -> << <<"May">> >>
      [] name = "note" -> << <<"In press">> >>
      [] name = "url" -> << <<"http://doe.org/p">> >>
      [] name = "type" -> << <<>>, <<"Working Paper">> >>
      [] name = "institution" -> << <<"MIT">> >>
      [] name = "address" -> << <<"Cambridge">> >>

\* The names the formatter of a category reads.
Relevant(category) ==
    CASE category = "article" ->
            {"title", "author", "journal", "volume", "number", "pages",
             "year", "month", "note", "url"}
      [] category = "unpublished" ->
            {"title", "author", "type", "number", "year", "month", "note", "url"}
      [] category = "techreport" ->
            {"title", "author", "type", "number", "institution", "address",
             "year", "note"}
      [] OTHER -> {"title", "author", "year", "month", "note", "url"}

MkEntry(category, opt) ==
    [type |-> category,
     fields |-> [n \in {m \in DOMAIN opt : m # "author" /\ opt[m] > 0}
                    |-> FieldValues(n)[opt[n]]],
     persons |-> [r \in {m \in DOMAIN opt : m = "author" /\ opt[m] > 0}
                    |-> FieldValues(r)[opt[r]]]]

EntriesOf(category) ==
    {MkEntry(category, opt) :
        opt \in {o \in [Relevant(category) -> 0..2] :
                    \A n \in Relevant(category) : o[n] <= Len(FieldValues(n))}}

FmtEntries == UNION {EntriesOf(c) : c \in Categories}

NoEntry == [type |-> "misc", fields |-> <<>>, persons |-> <<>>]

Pending == [done |-> FALSE, ok |-> FALSE, text |-> <<>>]

\* formatted_entry = style.format_entry(entry); formatted_entry.text.render(html)
FormatEntry ==
    /\ ~fmtOut.done
    /\ LET r == format_entry(fmtEntry)
       IN fmtOut' = [done |-> TRUE, ok |-> r.ok, text |-> render(r.text)]
    /\ UNCHANGED <<fmtEntry, pipeVars>>

----------------------------------------------------------------------------
(* add_publications: inputs *)

Author == [author |-> <<"A. Doe">>]

\* The entries a parsed bibliography is made of.  A year and a journal are
\* sequences of characters, so that int() and string comparison act on them.
PipeEntries ==
    { [type |-> "article", persons |-> Author,
       fields |-> [title |-> <<"deep">>, year |-> <<"2", "0">>, journal |-> <<"B">>]],
      [type |-> "article", persons |-> Author,
       fields |-> [title |-> <<"deep">>, year |-> <<"2", "0">>, journal |-> <<"A", "B">>]],
      [type |-> "article", persons |-> Author,
       fields |-> [title |-> <<"deep">>, year |-> <<"1", "9">>, journal |-> <<"B">>]],
      [type |-> "article", persons |-> Author,
       fields |-> [title |-> <<"deep">>, year |-> <<"2", "0", "a">>, journal |-> <<"A">>]],
      [type |-> "unpublished", persons |-> Author,
       fields |-> [title |-> <<"deep">>, year |-> <<"2", "0">>]],
      [type |-> "unpublished", persons |-> Author,
       fields |-> [title |-> <<"nets">>, year |-> <<"1", "9">>]],
      [type |-> "techreport", persons |-> Author,
       fields |-> [title |-> <<"deep">>, year |-> <<"2", "0">>, institution |-> <<"MIT">>]],
      [type |-> "techreport", persons |-> Author,
       fields |-> [title |-> <<"deep">>, year |-> <<"1", "9">>]],
      [type |-> "misc", persons |-> Author,
       fields |-> [title |-> <<"deep">>]],
      [type |-> "misc", persons |-> Author,
       fields |-> [title |-> <<"nets">>, year |-> <<"1", "9">>]] }

Bibliographies == UNION {[1..n -> PipeEntries] : n \in 0..MaxEntries}

\* Parser().parse_file either returns the entries or raises PybtexError.
ParseResults ==
    {[ok |-> TRUE, entries |-> b, error |-> ""] : b \in Bibliographies}
    \cup {[ok |-> FALSE, entries |-> <<>>, error |-> e] :
             e \in {"syntax error in line 3", "unbalanced braces"}}

RefsPath == "content/pubs.bib"

OtherSettings == [SITENAME |-> "site"]

Configured == [SITENAME |-> "site", PUBLICATIONS_SRC |-> RefsPath]

\* The interpreters the module provides for (the StringIO import of
\* lines 41-44 serves Python 2 and Python 3).
PyVersions == {2, 3}

----------------------------------------------------------------------------
(* add_publications: the sort key *)

DigitValue(c) ==
    CASE c = "0" -> 0 [] c = "1" -> 1 [] c = "2" -> 2 [] c = "3" -> 3
      [] c = "4" -> 4 [] c = "5" -> 5 [] c = "6" -> 6 [] c = "7" -> 7
      [] c = "8" -> 8 [] c = "9" -> 9 [] OTHER -> -1

AllDigits(cs) == cs # <<>> /\ \A i \in 1..Len(cs) : DigitValue(cs[i]) >= 0

RECURSIVE DigitsValue(_)
DigitsValue(cs) ==
    IF cs = <<>> THEN 0
    ELSE 10 * DigitsValue(SubSeq(cs, 1, Len(cs) - 1)) + DigitValue(cs[Len(cs)])

\* int(text): an optional sign and decimal digits, ValueError otherwise.
int(cs) ==
    IF cs # <<>> /\ Head(cs) \in {"+", "-"}
    THEN IF AllDigits(Tail(cs))
         THEN [ok |-> TRUE,
               value |-> IF Head(cs) = "-" THEN 0 - DigitsValue(Tail(cs))
                         ELSE DigitsValue(Tail(cs))]
         ELSE [ok |-> FALSE, value |-> 0]
    ELSE IF AllDigits(cs) THEN [ok |-> TRUE, value |-> DigitsValue(cs)]
    ELSE [ok |-> FALSE, value |-> 0]

\* The year of a sort key: <<>> is None, <<n>> the integer n.
None == <<>>

\* Lines 182-185.  [raised, year]: int(None) raises TypeError, which is
\* caught; int of a text that is no integer raises ValueError, which is not.
year_of(entry) ==
    IF "year" \notin DOMAIN entry.fields THEN [raised |-> FALSE, year |-> None]
    ELSE LET v == int(entry.fields["year"])
         IN IF v.ok THEN [raised |-> FALSE, year |-> <<v.value>>]
            ELSE [raised |-> TRUE, year |-> None]

\* Line 187
journal_of(entry) ==
    IF "journal" \in DOMAIN entry.fields THEN entry.fields["journal"] ELSE <<>>

CharOrd(c) == CASE c = "A" -> 65 [] c = "B" -> 66 [] OTHER -> 0

RECURSIVE StrLess(_, _)
StrLess(a, b) ==
    IF b = <<>> THEN FALSE
    ELSE IF a = <<>> THEN TRUE
    ELSE IF Head(a) # Head(b) THEN CharOrd(Head(a)) < CharOrd(Head(b))
    ELSE StrLess(Tail(a), Tail(b))

\* Python 2 orders None before every integer.
YearLess(a, b) ==
    IF a = None THEN b # None
    ELSE IF b = None THEN FALSE
    ELSE a[1] < b[1]

\* Tuple comparison of two (year, journal) keys.
KeyLess(a, b) ==
    IF a.year # b.year THEN YearLess(a.year, b.year)
    ELSE StrLess(a.journal, b.journal)

Mixed(list) ==
    \E i, j \in 1..Len(list) :
        list[i].sort_key.year = None /\ list[j].sort_key.year # None

\* Python 3 raises TypeError when it compares None with an integer, and a
\* sort of a list holding both kinds of year must compare one with the other.
SortRaises(version, list) == version = 3 /\ Mixed(list)

RECURSIVE InsertDescending(_, _)
InsertDescending(x, s) ==
    IF s = <<>> THEN <<x>>
    ELSE IF KeyLess(Head(s).sort_key, x.sort_key) THEN <<x>> \o s
    ELSE <<Head(s)>> \o InsertDescending(x, Tail(s))

RECURSIVE SortInto(_, _)
SortInto(acc, list) ==
    IF list = <<>> THEN acc
    ELSE SortInto(InsertDescending(Head(list), acc), Tail(list))

\* sorted(list, key=itemgetter(-1), reverse=True): descending and stable.
sorted(list) == SortInto(<<>>, list)

----------------------------------------------------------------------------
(* add_publications: the handler *)

Ended == pc \in {"returned", "raised"}

\* Line 157
HasSource(s) == "PUBLICATIONS_SRC" \in DOMAIN s

\* Line 160
refs_file(s) == s["PUBLICATIONS_SRC"]

\* A warning that leaves the path out.
WarningWithoutPath(path, e) == [level |-> "WARNING", path |-> "", error |-> e]

\* Lines 164-166: the warning carries the path and str(e).
Warning(path, e) == [level |-> "WARNING", path |-> path, error |-> e]

\* A list that outlives the run (a module-level or default-argument list).
SharedList(old) == old

\* Lines 175-177: each run binds its three names to a new empty list.
NewList(old) == <<>>

\* Line 193-194: the BibTeX text of the one entry under its key.
write_bibtex(key, entry) == [key |-> key, entry |-> entry]

\* Lines 189-198
entry_res(key, entry, text) ==
    [key |-> key,
     text |-> render(text),
     bibtex |-> write_bibtex(key, entry),
     sort_key |-> [year |-> year_of(entry).year, journal |-> journal_of(entry)]]

\* Lines 200-205
Bucket(entry) ==
    IF entry.type = "article" THEN "publications"
    ELSE IF entry.type = "unpublished" THEN "unpublished"
    ELSE "reports"

Put(ctx, name, value) ==
    [k \in DOMAIN ctx \cup {name} |-> IF k = name THEN value ELSE ctx[k]]

Raise(e) == pc' = "raised" /\ err' = e

inputVars == <<py, settings, parseResult, run, atEntry, finished>>

\* An unconfigured run that exposes three empty buckets.
UnconfiguredExposesEmptyBuckets ==
    /\ pc = "idle"
    /\ ~HasSource(settings)
    /\ context' = Put(Put(Put(context, "publications", <<>>), "reports", <<>>),
                      "unpublished", <<>>)
    /\ pc' = "returned"
    /\ UNCHANGED <<inputVars, err, idx, publications, reports, unpublished,
                   log, parserCalls, fmtVars>>

\* Lines 157-158: nothing is configured, the handler returns at once.
Unconfigured ==
    /\ pc = "idle"
    /\ ~HasSource(settings)
    /\ pc' = "returned"
    /\ UNCHANGED <<inputVars, err, idx, publications, reports, unpublished,
                   context, log, parserCalls, fmtVars>>

\* Lines 160-167: the parser raises PybtexError; one warning, then return.
ParseFails ==
    /\ pc = "idle"
    /\ HasSource(settings)
    /\ ~parseResult.ok
    /\ parserCalls' = parserCalls + 1
    /\ log' = Append(log, Warning(refs_file(settings), parseResult.error))
    /\ pc' = "returned"
    /\ UNCHANGED <<inputVars, err, idx, publications, reports, unpublished,
                   context, fmtVars>>

\* Lines 160-177: the parser returns; the style, the backend, the generator
\* of formatted entries and the three lists are created.
ParseSucceeds ==
    /\ pc = "idle"
    /\ HasSource(settings)
    /\ parseResult.ok
    /\ parserCalls' = parserCalls + 1
    /\ publications' = NewList(publications)
    /\ reports' = NewList(reports)
    /\ unpublished' = NewList(unpublished)
    /\ idx' = 1
    /\ pc' = "loop"
    /\ UNCHANGED <<inputVars, err, context, log, fmtVars>>

\* Lines 178-205, one iteration: the generator formats the next entry
\* (FieldIsMissing leaves the handler), the key is built (ValueError leaves
\* the handler), the text is rendered and the tuple appended to its list.
LoopStep ==
    /\ pc = "loop"
    /\ idx <= Len(parseResult.entries)
    /\ LET entry == parseResult.entries[idx]
           formatted == format_entry(entry)
           res == entry_res(idx, entry, formatted.text)
       IN IF ~formatted.ok
          THEN Raise("FieldIsMissing")
               /\ UNCHANGED <<idx, publications, reports, unpublished>>
          ELSE IF year_of(entry).raised
          THEN Raise("ValueError")
               /\ UNCHANGED <<idx, publications, reports, unpublished>>
          ELSE /\ idx' = idx + 1
               /\ publications' = IF Bucket(entry) = "publications"
                                  THEN Append(publications, res) ELSE publications
               /\ unpublished' = IF Bucket(entry) = "unpublished"
                                 THEN Append(unpublished, res) ELSE unpublished
               /\ reports' = IF Bucket(entry) = "reports"
                             THEN Append(reports, res) ELSE reports
               /\ UNCHANGED <<pc, err>>
    /\ UNCHANGED <<inputVars, context, log, parserCalls, fmtVars>>

\* Lines 207-209
SortPublications ==
    /\ pc = "loop"
    /\ idx > Len(parseResult.entries)
    /\ IF SortRaises(py, publications)
       THEN Raise("TypeError") /\ UNCHANGED context
       ELSE /\ context' = Put(context, "publications", sorted(publications))
            /\ pc' = "reports"
            /\ UNCHANGED err
    /\ UNCHANGED <<inputVars, idx, publications, reports, unpublished, log,
                   parserCalls, fmtVars>>

\* Lines 210-212
SortReports ==
    /\ pc = "reports"
    /\ IF SortRaises(py, reports)
       THEN Raise("TypeError") /\ UNCHANGED context
       ELSE /\ context' = Put(context, "reports", sorted(reports))
            /\ pc' = "unpublished"
            /\ UNCHANGED err
    /\ UNCHANGED <<inputVars, idx, publications, reports, unpublished, log,
                   parserCalls, fmtVars>>

\* Lines 213-215
SortUnpublished ==
    /\ pc = "unpublished"
    /\ IF SortRaises(py, unpublished)
       THEN Raise("TypeError") /\ UNCHANGED context
       ELSE /\ context' = Put(context, "unpublished", sorted(unpublished))
            /\ pc' = "returned"
            /\ UNCHANGED err
    /\ UNCHANGED <<inputVars, idx, publications, reports, unpublished, log,
                   parserCalls, fmtVars>>

\* Lines 218-219: the handler is connected to generator_init, so it runs
\* again for the next generator, which brings its own context.
NextGenerator ==
    /\ Ended
    /\ run < MaxRuns
    /\ finished' = Append(finished, [context |-> context, pc |-> pc, err |-> err])
    /\ run' = run + 1
    /\ context' = <<>>
    /\ pc' = "idle"
    /\ err' = ""
    /\ atEntry' = [log |-> Len(log), calls |-> parserCalls]
    /\ UNCHANGED <<py, settings, parseResult, idx, publications, reports,
                   unpublished, log, parserCalls, fmtVars>>

Inputs ==
    {[settings |-> Configured, parseResult |-> r] : r \in ParseResults}
    \cup {[settings |-> OtherSettings, parseResult |-> r] :
             r \in {q \in ParseResults : Len(q.entries) <= 1}}

Init ==
    /\ py \in PyVersions
    /\ \E in \in Inputs : settings = in.settings /\ parseResult = in.parseResult
    /\ run = 1
    /\ pc = "idle"
    /\ err = ""
    /\ idx = 0
    /\ publications = <<>>
    /\ reports = <<>>
    /\ unpublished = <<>>
    /\ context = <<>>
    /\ log = <<>>
    /\ parserCalls = 0
    /\ atEntry = [log |-> 0, calls |-> 0]
    /\ finished = <<>>
    /\ fmtEntry = NoEntry
    /\ fmtOut = Pending

Next ==
    \/ Unconfigured
    \/ ParseFails
    \/ ParseSucceeds
    \/ LoopStep
    \/ SortPublications
    \/ SortReports
    \/ SortUnpublished
    \/ NextGenerator

Spec == Init /\ [][Next]_vars

InitFmt ==
    /\ py = 3
    /\ settings = OtherSettings
    /\ parseResult = [ok |-> TRUE, entries |-> <<>>, error |-> ""]
    /\ run = 1
    /\ pc = "idle"
    /\ err = ""
    /\ idx = 0
    /\ publications = <<>>
    /\ reports = <<>>
    /\ unpublished = <<>>
    /\ context = <<>>
    /\ log = <<>>
    /\ parserCalls = 0
    /\ atEntry = [log |-> 0, calls |-> 0]
    /\ finished = <<>>
    /\ fmtEntry \in FmtEntries
    /\ fmtOut = Pending

NextFmt == FormatEntry

SpecFmt == InitFmt /\ [][NextFmt]_vars

----------------------------------------------------------------------------
(* Properties of add_publications *)

BucketNames == {"publications", "reports", "unpublished"}

Written == DOMAIN context \cap BucketNames

Exposed(name) == IF name \in DOMAIN context THEN context[name] ELSE <<>>

Parsed == HasSource(settings) /\ parseResult.ok

Occurrences(list, key) == Cardinality({j \in 1..Len(list) : list[j].key = key})

\* The order of the sort keys as the specification words it: the later year
\* is the greater, an absent year is less than every year that is present,
\* and on equal years the greater venue is the greater key.
AtLeast(a, b) ==
    IF a.year = None /\ b.year = None THEN ~StrLess(a.journal, b.journal)
    ELSE IF b.year = None THEN TRUE
    ELSE IF a.year = None THEN FALSE
    ELSE IF a.year[1] # b.year[1] THEN a.year[1] > b.year[1]
    ELSE ~StrLess(a.journal, b.journal)

Descending(list) ==
    \A i \in 1..(Len(list) - 1) : AtLeast(list[i].sort_key, list[i + 1].sort_key)

NonIntegerYear(entry) ==
    "year" \in DOMAIN entry.fields /\ ~int(entry.fields["year"]).ok

AllFormat == \A i \in 1..Len(parseResult.entries) : format_entry(parseResult.entries[i]).ok

\* C1: after a run whose parse succeeded, every record of the parsed input
\* is in exactly one of the three buckets, once, the bucket being
\* publications for an article, unpublished for an unpublished record and
\* reports for every other category; the bucket sizes sum to the number of
\* records.
C1_EveryRecordInOneBucket ==
    (Ended /\ Parsed) =>
        /\ \A i \in 1..Len(parseResult.entries) :
              LET category == parseResult.entries[i].type
                  home == IF category = "article" THEN "publications"
                          ELSE IF category = "unpublished" THEN "unpublished"
                          ELSE "reports"
              IN /\ Occurrences(Exposed(home), i) = 1
                 /\ \A other \in BucketNames \ {home} :
                        Occurrences(Exposed(other), i) = 0
        /\ Len(Exposed("publications")) + Len(Exposed("reports"))
             + Len(Exposed("unpublished")) = Len(parseResult.entries)

\* What the code does keep of C1: a run that returns normally after a
\* successful parse has put every record in the bucket of its category once.
PartitionOnNormalReturn ==
    (pc = "returned" /\ Parsed) =>
        /\ Written = BucketNames
        /\ \A i \in 1..Len(parseResult.entries) :
              /\ Occurrences(Exposed(Bucket(parseResult.entries[i])), i) = 1
              /\ \A other \in BucketNames \ {Bucket(parseResult.entries[i])} :
                    Occurrences(Exposed(other), i) = 0

\* C2: for every input whose records were all built into the three lists,
\* each of the three buckets is exposed and is in descending (year, venue)
\* order, an absent year after every present year, also when a bucket mixes
\* entries with and without a year.
C2_BucketsDescendingForEveryInput ==
    (Ended /\ Parsed /\ err \notin {"FieldIsMissing", "ValueError"}) =>
        \A name \in BucketNames :
            name \in DOMAIN context /\ Descending(context[name])

\* What the code does keep of C2: a bucket that is exposed is descending.
ExposedBucketsDescending ==
    \A name \in Written : Descending(context[name])

\* C3: when the parser fails on the configured file, add_publications
\* returns normally, writes none of the three buckets and emits exactly one
\* warning, which carries the source path and the parser's error text.
C3_ParseFailureWarnsOnce ==
    (Ended /\ HasSource(settings) /\ ~parseResult.ok) =>
        /\ pc = "returned"
        /\ err = ""
        /\ Written = {}
        /\ Len(log) = atEntry.log + 1
        /\ log[Len(log)].level = "WARNING"
        /\ log[Len(log)].path = settings["PUBLICATIONS_SRC"]
        /\ log[Len(log)].error = parseResult.error

C3_Witness ==
    /\ Ended
    /\ run = 2
    /\ HasSource(settings)
    /\ ~parseResult.ok
    /\ Len(log) = 2

\* C4: a record whose year is present but is not the text of an integer gets
\* the absent year in its sort key, as a record without a year does; no
\* error reaches the caller and the run produces all three buckets with the
\* record in its bucket.  (Stated for inputs where nothing else can fail:
\* every record formats, and Python 2 orders None.)
C4_NonIntegerYearCountsAsAbsent ==
    (Ended /\ Parsed /\ AllFormat /\ py = 2) =>
        /\ pc = "returned"
        /\ Written = BucketNames
        /\ \A i \in 1..Len(parseResult.entries) :
              NonIntegerYear(parseResult.entries[i]) =>
                  \E j \in 1..Len(Exposed(Bucket(parseResult.entries[i]))) :
                      LET e == Exposed(Bucket(parseResult.entries[i]))[j]
                      IN e.key = i /\ e.sort_key.year = None

\* C6: when PUBLICATIONS_SRC is not a key of the settings, the handler does
\* not call the parser, emits no log entry, leaves the context as it was
\* and returns without error.
C6_UnconfiguredIsNoOp ==
    (pc # "idle" /\ ~HasSource(settings)) =>
        /\ pc = "returned"
        /\ err = ""
        /\ parserCalls = 0
        /\ log = <<>>
        /\ context = <<>>

C6_Witness ==
    /\ pc = "returned"
    /\ run = 2
    /\ ~HasSource(settings)

\* C7: every run on the same parsed input, each with its own fresh context,
\* ends as the runs before it did: the same buckets with the same entries
\* in the same order (entries with equal sort keys included), and the same
\* outcome.
C7_RunsAgree ==
    Ended =>
        \A k \in 1..Len(finished) :
            finished[k] = [context |-> context, pc |-> pc, err |-> err]

C7_Witness ==
    /\ pc = "returned"
    /\ run = 2
    /\ Parsed
    /\ \E name \in Written :
          /\ Len(context[name]) >= 2
          /\ context[name][1].sort_key = context[name][2].sort_key
          /\ context[name][1].key < context[name][2].key

\* C10: at the end of any run, returned or raised, the context holds all
\* three of publications, reports and unpublished, or none of them.
C10_AllOrNothing ==
    Ended => Written \in {{}, BucketNames}

----------------------------------------------------------------------------
(* Properties of the formatters *)

\* True when the token sequence `needle` occurs contiguously in `text`.
Contains(text, needle) ==
    \E i \in 1..(Len(text) - Len(needle) + 1) :
        SubSeq(text, i, i + Len(needle) - 1) = needle

Has(name) == name \in DOMAIN fmtEntry.fields

Given(name) == IF Has(name) THEN fmtEntry.fields[name] ELSE <<>>

Rendered(category) == fmtOut.done /\ fmtOut.ok /\ fmtEntry.type = category

\* C5: formatting a record never raises for a missing field: for every
\* category and every subset of present fields the formatter returns text.
C5_FormattingNeverRaises ==
    fmtOut.done => fmtOut.ok

\* A text with every run of hyphens replaced by one en dash.
EnDashed(t) ==
    LET keep == {i \in 1..Len(t) : ~(t[i] = "-" /\ i < Len(t) /\ t[i + 1] = "-")}
        nth(k) == CHOOSE i \in keep : Cardinality({j \in keep : j <= i}) = k
    IN [k \in 1..Cardinality(keep) |->
           IF t[nth(k)] = "-" THEN "&ndash;" ELSE t[nth(k)]]

NumberInParentheses == IF Has("number") THEN <<"(">> \o Given("number") \o <<")">> ELSE <<>>

DateText == (IF Has("month") THEN Given("month") \o <<" ">> ELSE <<>>) \o Given("year")

VenueSentence(detail) ==
    <<"<em>">> \o Given("journal") \o <<"</em>">>
    \o (IF detail = <<>> THEN <<>> ELSE <<", ">> \o detail)
    \o <<", ">> \o DateText \o <<".">>

ScenarioEntry ==
    /\ Given("journal") = <<"ACM Computing Surveys">>
    /\ Given("volume") = <<"52">>
    /\ Given("number") = <<"4">>
    /\ Given("pages") = <<"1", "-", "35">>
    /\ Given("year") = <<"2", "0", "2", "0">>

DefaultLabel ==
    IF fmtEntry.type = "unpublished" THEN "Unpublished" ELSE "Technical Report"

NumberAfterLabel ==
    IF Given("number") # <<>> THEN <<" ">> \o Given("number") ELSE <<>>

LabelledAs(label) == Contains(fmtOut.text, <<"\n">> \o label \o NumberAfterLabel \o <<", ">>)

\* C9 as it was claimed: the type label of an unpublished or technical
\* report citation is the 'type' field when that field is present and the
\* category's literal default otherwise; the literal never appears together
\* with a present 'type' value; the number follows only when it is present.
C9_LabelAsClaimed ==
    (Rendered("unpublished") \/ Rendered("techreport")) =>
        /\ LabelledAs(IF Has("type") THEN Given("type") ELSE <<DefaultLabel>>)
        /\ Has("type") => ~Contains(fmtOut.text, <<DefaultLabel>>)

\* C9, amended: the type label is the 'type' field when that field is
\* present and not empty, and the category's literal default ('Unpublished',
\* 'Technical Report') when the field is absent or empty; the literal never
\* appears together with a non-empty 'type' value; the number follows the
\* label only when it is present.
C9_TypeLabel ==
    (Rendered("unpublished") \/ Rendered("techreport")) =>
        /\ LabelledAs(IF Given("type") # <<>> THEN Given("type") ELSE <<DefaultLabel>>)
        /\ Given("type") # <<>> => ~Contains(fmtOut.text, <<DefaultLabel>>)
        /\ ~Has("number") => ~Contains(fmtOut.text, <<"4">>)

C9_Witness ==
    /\ Rendered("unpublished")
    /\ ~Has("type")
    /\ Given("number") = <<"4">>
    /\ Contains(fmtOut.text, <<"\n", "Unpublished", " ", "4", ", ">>)

====
